---- MODULE Spec2Model ----
(***************************************************************************)
(* converte_base.py: the COTAHIST fixed-width record decoder (parse_line)  *)
(* and the extraction pipeline around it (main).                           *)
(*                                                                         *)
(* Text is a sequence of one-character strings.  A Python value that may   *)
(* be None, an int or a float is a record [t, v]: t is the Python type and *)
(* v an integer (for a float, the value in hundredths: the only floats the *)
(* program makes are int / 100.0).  The result of a call that may raise is *)
(* a record with a field "raised".                                         *)
(***************************************************************************)
EXTENDS Integers, Sequences, FiniteSets, TLC

VARIABLES
    args,                \* argparse namespace: [ativos, entrada, limit]
    ativos,              \* the wanted tickers, a set of texts
    arquivos,            \* the source list, a sequence of paths
    pc,                  \* position in main (or in the decoder harness)
    fi,                  \* index in arquivos of the file the outer loop is at
    li,                  \* lines of that file already taken by the inner loop
    outfile,             \* rows written to the destination, in order
    linhas_processadas,  \* the accepted-record counter
    reported,            \* the total printed at the end (PyNone before)
    log,                 \* history: what main did, in order
    arg,                 \* decoder harness: the line handed to parse_line
    ret                  \* decoder harness: what parse_line returned

vars == <<args, ativos, arquivos, pc, fi, li, outfile, linhas_processadas,
          reported, log, arg, ret>>

-----------------------------------------------------------------------------
(* Bounds of the model *)

\* lines in all the sources of one run together
MaxLines == 3
\* largest --limit tried (the smallest is -1)
MaxLimit == 2

-----------------------------------------------------------------------------
(* Python values *)

PyNone == [t |-> "NoneType", v |-> 0]
PyInt(n) == [t |-> "int", v |-> n]
\* the float n / 100.0, kept as its hundredths
PyFloat100(n) == [t |-> "float", v |-> n]

Digits == {"0", "1", "2", "3", "4", "5", "6", "7", "8", "9"}
NonZeroDigits == Digits \ {"0"}
\* the whitespace str.strip() and int() remove, as far as the inputs have it
Whitespace == {" ", "\t", "\n"}

DigitVal(c) ==
    CASE c = "0" -> 0 [] c = "1" -> 1 [] c = "2" -> 2 [] c = "3" -> 3
      [] c = "4" -> 4 [] c = "5" -> 5 [] c = "6" -> 6 [] c = "7" -> 7
      [] c = "8" -> 8 [] c = "9" -> 9

DigitChar(n) ==
    CASE n = 0 -> "0" [] n = 1 -> "1" [] n = 2 -> "2" [] n = 3 -> "3"
      [] n = 4 -> "4" [] n = 5 -> "5" [] n = 6 -> "6" [] n = 7 -> "7"
      [] n = 8 -> "8" [] n = 9 -> "9"

Min(a, b) == IF a <= b THEN a ELSE b

\* s[a:b] for 0 <= a <= b: clipped to the characters there are
Slice(s, a, b) == SubSeq(s, a + 1, Min(b, Len(s)))

\* s[a:]
SliceFrom(s, a) == SubSeq(s, a + 1, Len(s))

RECURSIVE lstrip(_)
lstrip(s) ==
    IF s # <<>> /\ Head(s) \in Whitespace THEN lstrip(Tail(s)) ELSE s

RECURSIVE rstrip(_)
rstrip(s) ==
    IF s # <<>> /\ s[Len(s)] \in Whitespace
    THEN rstrip(SubSeq(s, 1, Len(s) - 1))
    ELSE s

\* str.strip()
strip(s) == rstrip(lstrip(s))

\* the digits of s, "_" left out, read in base 10
RECURSIVE DigitsValue(_)
DigitsValue(s) ==
    IF s = <<>> THEN 0
    ELSE IF s[Len(s)] = "_" THEN DigitsValue(SubSeq(s, 1, Len(s) - 1))
    ELSE 10 * DigitsValue(SubSeq(s, 1, Len(s) - 1)) + DigitVal(s[Len(s)])

\* int(s): whitespace around is dropped, one sign may lead, and digits may be
\* grouped by single underscores; anything else raises ValueError
int(s) ==
    LET t == strip(s)
        signed == t # <<>> /\ t[1] \in {"+", "-"}
        u == IF signed THEN Tail(t) ELSE t
        wellformed ==
            /\ u # <<>>
            /\ u[1] \in Digits
            /\ u[Len(u)] \in Digits
            /\ \A i \in 1..Len(u) : u[i] \in Digits \cup {"_"}
            /\ \A i \in 1..(Len(u) - 1) : ~(u[i] = "_" /\ u[i + 1] = "_")
    IN  IF ~wellformed THEN [raised |-> TRUE, v |-> 0]
        ELSE [raised |-> FALSE,
              v |-> IF signed /\ t[1] = "-" THEN 0 - DigitsValue(u)
                    ELSE DigitsValue(u)]

-----------------------------------------------------------------------------
(* datetime.strptime(s, "%Y%m%d") and strftime("%Y-%m-%d") *)

\* %m is the regex 1[0-2]|0[1-9]|[1-9]: the lengths of the alternatives that
\* match the start of r, in the order the regex tries them
MonthAlts(r) ==
    (IF Len(r) >= 2 /\ r[1] = "1" /\ r[2] \in {"0", "1", "2"} THEN <<2>> ELSE <<>>)
    \o (IF Len(r) >= 2 /\ r[1] = "0" /\ r[2] \in NonZeroDigits THEN <<2>> ELSE <<>>)
    \o (IF Len(r) >= 1 /\ r[1] \in NonZeroDigits THEN <<1>> ELSE <<>>)

\* %d is the regex 3[0-1]|[1-2]\d|0[1-9]|[1-9]| [1-9]: the length of the
\* first alternative that matches the start of r, 0 when none does
DayAlt(r) ==
    IF Len(r) >= 2 /\ r[1] = "3" /\ r[2] \in {"0", "1"} THEN 2
    ELSE IF Len(r) >= 2 /\ r[1] \in {"1", "2"} /\ r[2] \in Digits THEN 2
    ELSE IF Len(r) >= 2 /\ r[1] = "0" /\ r[2] \in NonZeroDigits THEN 2
    ELSE IF Len(r) >= 1 /\ r[1] \in NonZeroDigits THEN 1
    ELSE IF Len(r) >= 2 /\ r[1] = " " /\ r[2] \in NonZeroDigits THEN 2
    ELSE 0

IsLeap(y) == (y % 4 = 0 /\ y % 100 # 0) \/ y % 400 = 0

DaysInMonth(y, m) ==
    IF m = 2 THEN (IF IsLeap(y) THEN 29 ELSE 28)
    ELSE IF m \in {4, 6, 9, 11} THEN 30 ELSE 31

\* The regex is matched at the start of s and need not reach its end; the
\* match is the first in the regex's order of alternatives, and what it
\* leaves over is "unconverted data remains".  The date must exist.
strptime(s) ==
    LET fail == [raised |-> TRUE, y |-> 0, m |-> 0, d |-> 0]
        r == SliceFrom(s, 4)
        ms == MonthAlts(r)
        fits(k) == DayAlt(SliceFrom(r, ms[k])) # 0
    IN  IF ~(Len(s) >= 4 /\ \A i \in 1..4 : s[i] \in Digits) THEN fail
        ELSE IF ~(\E k \in 1..Len(ms) : fits(k)) THEN fail
        ELSE LET k == CHOOSE k \in 1..Len(ms) :
                        fits(k) /\ \A j \in 1..(k - 1) : ~fits(j)
                 ml == ms[k]
                 dl == DayAlt(SliceFrom(r, ml))
                 y == DigitsValue(Slice(s, 0, 4))
                 m == DigitsValue(Slice(r, 0, ml))
                 d == DigitsValue(strip(Slice(r, ml, ml + dl)))
             IN  IF 4 + ml + dl # Len(s) THEN fail
                 ELSE IF y < 1 \/ d > DaysInMonth(y, m) THEN fail
                 ELSE [raised |-> FALSE, y |-> y, m |-> m, d |-> d]

\* the decimal digits of n >= 0, at least w of them
RECURSIVE ZeroPad(_, _)
ZeroPad(n, w) ==
    IF n < 10 /\ w <= 1 THEN <<DigitChar(n)>>
    ELSE Append(ZeroPad(n \div 10, w - 1), DigitChar(n % 10))

\* dt.strftime("%Y-%m-%d").  %m and %d are two digits.  %Y is the C
\* library's: it pads a year below 1000 to four digits on some platforms and
\* not on others (glibc), so the platform is a parameter.
strftime(dt, pad_year) ==
    ZeroPad(dt.y, IF pad_year THEN 4 ELSE 1)
        \o <<"-">> \o ZeroPad(dt.m, 2) \o <<"-">> \o ZeroPad(dt.d, 2)

-----------------------------------------------------------------------------
(* parse_line *)

fieldnames ==
    <<"codigo_registro", "data_pregao", "codigo_mercado", "ativo",
      "codigo_bdi", "nome", "especificador", "identificacao_mercado",
      "moeda_cotacao", "preco_abertura", "preco_maximo", "preco_minimo",
      "preco_fechamento", "preco_melhor_compra", "preco_melhor_venda",
      "numero_negocios", "quantidade_acoes", "volume_financeiro",
      "preco_fechamento_ajustado", "fator_ajuste", "codigo_papel_registro">>

FieldSet == {fieldnames[i] : i \in 1..Len(fieldnames)}

\* try: strptime, strftime / except Exception: the raw slice
data_pregao_formatada(data_pregao, pad_year) ==
    LET dt == strptime(data_pregao)
    IN  IF dt.raised THEN data_pregao ELSE strftime(dt, pad_year)

\* the conversion without its try: the ValueError gets out
convert_price_uncaught(valor_str) ==
    LET n == int(valor_str)
    IN  [raised |-> n.raised, val |-> PyFloat100(n.v)]

\* the conversion falling back to 0.0, as the integer fields fall back to 0
convert_price_zero(valor_str) ==
    LET n == int(valor_str)
    IN  [raised |-> FALSE, val |-> PyFloat100(IF n.raised THEN 0 ELSE n.v)]

\* try: int(valor_str) / 100.0 / except: None
convert_price(valor_str) ==
    LET n == int(valor_str)
    IN  IF n.raised THEN [raised |-> FALSE, val |-> PyNone]
        ELSE [raised |-> FALSE, val |-> PyFloat100(n.v)]

\* try: int(s) / except: 0
convert_int(s) ==
    LET n == int(s)
    IN  IF n.raised THEN [raised |-> FALSE, val |-> PyInt(0)]
        ELSE [raised |-> FALSE, val |-> PyInt(n.v)]

\* the ticker slice with its padding left on
codigo_negociacao_raw(line) == Slice(line, 12, 24)

codigo_negociacao(line) == strip(Slice(line, 12, 24))

codigo_papel_registro(line) ==
    IF Len(line) > 190 THEN strip(SliceFrom(line, 190)) ELSE <<>>

\* parse_line(line): [raised, registro].  An exception that a conversion
\* lets out leaves parse_line; none of the conversions above lets one out.
parse_line(line, pad_year) ==
    LET preco_abertura == convert_price(Slice(line, 56, 69))
        preco_maximo == convert_price(Slice(line, 69, 82))
        preco_minimo == convert_price(Slice(line, 82, 95))
        preco_fechamento == convert_price(Slice(line, 95, 108))
        preco_melhor_compra == convert_price(Slice(line, 108, 121))
        preco_melhor_venda == convert_price(Slice(line, 121, 134))
        preco_fechamento_ajustado == convert_price(Slice(line, 173, 186))
        volume_financeiro == convert_price(Slice(line, 157, 173))
        numero_negocios == convert_int(Slice(line, 134, 141))
        quantidade_acoes == convert_int(Slice(line, 141, 157))
        fator_ajuste == convert_int(Slice(line, 186, 190))
        conversions == {preco_abertura, preco_maximo, preco_minimo,
                        preco_fechamento, preco_melhor_compra,
                        preco_melhor_venda, preco_fechamento_ajustado,
                        volume_financeiro, numero_negocios,
                        quantidade_acoes, fator_ajuste}
    IN  IF \E c \in conversions : c.raised
        THEN [raised |-> TRUE, registro |-> <<>>]
        ELSE [raised |-> FALSE,
              registro |->
                [codigo_registro |-> Slice(line, 0, 2),
                 data_pregao |->
                     data_pregao_formatada(Slice(line, 2, 10), pad_year),
                 codigo_mercado |-> Slice(line, 10, 12),
                 ativo |-> codigo_negociacao(line),
                 codigo_bdi |-> Slice(line, 24, 27),
                 nome |-> strip(Slice(line, 27, 39)),
                 especificador |-> strip(Slice(line, 39, 47)),
                 identificacao_mercado |-> strip(Slice(line, 47, 52)),
                 moeda_cotacao |-> strip(Slice(line, 52, 56)),
                 preco_abertura |-> preco_abertura.val,
                 preco_maximo |-> preco_maximo.val,
                 preco_minimo |-> preco_minimo.val,
                 preco_fechamento |-> preco_fechamento.val,
                 preco_melhor_compra |-> preco_melhor_compra.val,
                 preco_melhor_venda |-> preco_melhor_venda.val,
                 numero_negocios |-> numero_negocios.val,
                 quantidade_acoes |-> quantidade_acoes.val,
                 volume_financeiro |-> volume_financeiro.val,
                 preco_fechamento_ajustado |-> preco_fechamento_ajustado.val,
                 fator_ajuste |-> fator_ajuste.val,
                 codigo_papel_registro |-> codigo_papel_registro(line)]]

-----------------------------------------------------------------------------
(* main: arguments, source list, destination *)

\* the code points of the characters that file names are made of
ord(c) ==
    CASE c = "/" -> 47 [] c = "1" -> 49 [] c = "B" -> 66 [] c = "C" -> 67
      [] c = "a" -> 97 [] c = "d" -> 100

\* a < b for two texts, as Python compares str: by code point, a proper
\* prefix first
RECURSIVE StrLess(_, _)
StrLess(a, b) ==
    IF b = <<>> THEN FALSE
    ELSE IF a = <<>> THEN TRUE
    ELSE IF Head(a) # Head(b) THEN ord(Head(a)) < ord(Head(b))
    ELSE StrLess(Tail(a), Tail(b))

RECURSIVE insort(_, _)
insort(s, e) ==
    IF s = <<>> THEN <<e>>
    ELSE IF StrLess(e, Head(s)) THEN <<e>> \o s
    ELSE <<Head(s)>> \o insort(Tail(s), e)

\* the listing left in the order os.listdir gave it
unsorted(s) == s

\* arquivos.sort(): ascending by path
RECURSIVE sorted(_)
sorted(s) ==
    IF s = <<>> THEN <<>> ELSE insort(sorted(SubSeq(s, 1, Len(s) - 1)), s[Len(s)])

\* os.path.join(entrada, f)
join(dir, f) == dir \o <<"/">> \o f

\* os.listdir(entrada): the names in the directory, in an order the
\* operating system picks; all the orders
listdir(entrada) ==
    LET n == Cardinality(entrada.entries)
    IN  {l \in [1..n -> entrada.entries] :
            \A i \in 1..n : \A j \in 1..n : l[i] = l[j] => i = j}

\* [os.path.join(entrada, f) for f in os.listdir(entrada) if os.path.isfile(...)]
RECURSIVE listfiles(_, _)
listfiles(dir, listing) ==
    IF listing = <<>> THEN <<>>
    ELSE (IF Head(listing).isfile
          THEN <<join(dir, Head(listing).name)>>
          ELSE <<>>)
         \o listfiles(dir, Tail(listing))

\* the source list of a directory, given what os.listdir returned
resolve(entrada, listing) == sorted(listfiles(entrada.path, listing))

\* open(arq, "r") and iteration: the lines of the file at that path
readlines(entrada, arq) ==
    IF entrada.isdir
    THEN LET e == CHOOSE e \in entrada.entries : join(entrada.path, e.name) = arq
         IN  e.lines
    ELSE entrada.lines

\* s.split(",")
RECURSIVE split(_)
split(s) ==
    IF \A i \in 1..Len(s) : s[i] # ","
    THEN <<s>>
    ELSE LET i == CHOOSE i \in 1..Len(s) :
                      s[i] = "," /\ \A j \in 1..(i - 1) : s[j] # ","
         IN  <<SubSeq(s, 1, i - 1)>> \o split(SubSeq(s, i + 1, Len(s)))

\* set(args.ativos.split(","))
wanted(text) == {split(text)[i] : i \in 1..Len(split(text))}

\* no header row
writeheader_missing(out) == out

\* writer.writeheader(): the row of the column names
writeheader(out) == Append(out, [header |-> TRUE, cells |-> fieldnames])

\* writer.writerow(registro): the cells in column order; DictWriter raises
\* ValueError for a key that is no column and fills a missing one with ""
writerow(out, registro) ==
    IF ~(DOMAIN registro \subseteq FieldSet) THEN [raised |-> TRUE, out |-> out]
    ELSE [raised |-> FALSE,
          out |-> Append(out,
              [header |-> FALSE,
               cells |-> [i \in 1..Len(fieldnames) |->
                            IF fieldnames[i] \in DOMAIN registro
                            THEN registro[fieldnames[i]] ELSE <<>>]])]

\* len(line) < 2
too_short(line) == Len(line) < 2

\* the marker check on the first character alone
not_data_first_char(line) == line[1] # "0"

\* line[0:2] != "01"
not_data(line) == Slice(line, 0, 2) # <<"0", "1">>

\* the limit check with > for >=: one record too late
limit_reached_late(limit, n) == limit.t # "NoneType" /\ n > limit.v

\* limit is not None and linhas_processadas >= limit
limit_reached(limit, n) == limit.t # "NoneType" /\ n >= limit.v

Event(ev, f, l) == [ev |-> ev, f |-> f, l |-> l]

-----------------------------------------------------------------------------
(* Inputs: COTAHIST lines *)

Rep(c, n) == [i \in 1..n |-> c]

\* How the eleven numeric fields of a line are filled.  "digits" is what
\* B3 writes; the others are malformed or unusual content.
Styles == {"digits", "zeros", "blank", "letters", "padded", "signed", "grouped"}

\* the number in numeric field i (in line order; 11 is the 4-wide factor)
FieldNumber(i) == IF i = 11 THEN 7 ELSE 1049 + i

\* numeric field i, w characters wide, in a style
Num(style, i, w) ==
    CASE style = "digits" -> ZeroPad(FieldNumber(i), w)
      [] style = "zeros" -> Rep("0", w)
      [] style = "blank" -> Rep(" ", w)
      [] style = "letters" -> <<"A">> \o ZeroPad(FieldNumber(i), w - 1)
      [] style = "padded" -> Rep(" ", w - 4) \o ZeroPad(FieldNumber(i), 4)
      [] style = "signed" -> <<"-">> \o ZeroPad(FieldNumber(i), w - 1)
      [] style = "grouped" -> <<"0", "_">> \o ZeroPad(FieldNumber(i), w - 2)

\* a line in the COTAHIST layout, without its line end
Layout(marker, date, ticker, style, tail) ==
    marker \o date \o <<"1", "0">> \o ticker \o <<"0", "2", " ">>
        \o <<"V", "A", "L", "E", " ", " ", " ", " ", " ", " ", " ", " ">>
        \o <<"O", "N", " ", " ", "N", "M", " ", " ">>
        \o <<" ", " ", " ", " ", " ">>
        \o <<"R", "$", " ", " ">>
        \o Num(style, 1, 13) \o Num(style, 2, 13) \o Num(style, 3, 13)
        \o Num(style, 4, 13) \o Num(style, 5, 13) \o Num(style, 6, 13)
        \o Num(style, 7, 7) \o Num(style, 8, 16) \o Num(style, 9, 16)
        \o Num(style, 10, 13) \o Num(style, 11, 4)
        \o tail

VALE3 == <<"V", "A", "L", "E", "3">>
PETR4 == <<"P", "E", "T", "R", "4">>
TickerVALE3 == VALE3 \o Rep(" ", 7)
TickerPETR4 == <<" ", " ">> \o PETR4 \o Rep(" ", 5)

Tickers == {TickerVALE3, TickerPETR4, Rep(" ", 12)}

Dates == {<<"2", "0", "2", "4", "0", "1", "0", "2">>,
          <<"2", "0", "2", "4", "0", "2", "2", "9">>,
          <<"2", "0", "2", "3", "0", "2", "2", "9">>,
          <<"1", "9", "0", "0", "0", "2", "2", "9">>,
          <<"2", "0", "0", "0", "0", "2", "2", "9">>,
          <<"2", "0", "2", "4", "0", "4", "3", "1">>,
          <<"2", "0", "2", "4", "1", "3", "0", "1">>,
          <<"2", "0", "2", "4", "1", "1", "2", "0">>,
          <<"2", "0", "2", "4", "0", "1", " ", "2">>,
          <<"2", "0", "2", "4", "1", "1", "2", " ">>,
          <<"2", "0", "2", "4", "A", "B", "0", "2">>,
          <<"0", "0", "0", "0", "0", "1", "0", "1">>,
          <<"0", "9", "9", "9", "0", "1", "0", "1">>,
          <<" ", " ", " ", " ", " ", " ", " ", " ">>}

Tails == {<<>>, <<" ", "B", "R", "V", "A", "L", "E", "3", "A", "C", "N", "O", " ">>}

Markers == {<<"0", "1">>, <<"0", "0">>}

\* where a line is cut short
Cuts == {1, 2, 8, 9, 10, 24, 60, 150, 190, 195, 210}

\* the lines the decoder is tried on: a layout, cut, with or without "\n"
DecoderLines ==
    {Slice(Layout(mk, d, tk, st, tl), 0, c) \o nl :
        mk \in Markers, d \in Dates, tk \in Tickers, st \in Styles,
        tl \in Tails, c \in Cuts, nl \in {<<>>, <<"\n">>}}

-----------------------------------------------------------------------------
(* Inputs: source files, directories, arguments *)

\* a data record as B3 writes it, with its line end
RecordLine(ticker) ==
    Layout(<<"0", "1">>, <<"2", "0", "2", "4", "0", "1", "0", "2">>, ticker,
           "digits", <<>>) \o <<"\n">>

\* lines that end in "\n": an empty line, a two-character line that is no
\* data record, a VALE3 record and a PETR4 record
EndedLines ==
    {<<"\n">>, <<"0", "\n">>, RecordLine(TickerVALE3), RecordLine(TickerPETR4)}

\* lines without a line end, which only the end of a file can hold: one
\* character, and a bare "01" marker
UnendedLines == {<<"0">>, <<"0", "1">>}

\* what iterating a text file can yield: up to n lines, none empty, all but
\* the last ended by "\n"
FileTexts(n) ==
    UNION {{t \in [1..k -> EndedLines \cup UnendedLines] :
               \A i \in 1..(k - 1) : t[i] \in EndedLines} : k \in 0..n}

NoLines == <<>>

\* a single source file
FileInputs ==
    {[isdir |-> FALSE, path |-> <<"a">>, lines |-> t, entries |-> {}] :
        t \in FileTexts(MaxLines)}

SubDir == [name |-> <<"C">>, isfile |-> FALSE, lines |-> NoLines]
FileB(t) == [name |-> <<"B">>, isfile |-> TRUE, lines |-> t]
Filea(t) == [name |-> <<"a">>, isfile |-> TRUE, lines |-> t]

\* what a directory holds: a subdirectory and up to two files
Directories ==
    {{SubDir}}
    \cup {{SubDir, Filea(t)} : t \in FileTexts(MaxLines)}
    \cup {{Filea(tu[1]), SubDir, FileB(tu[2])} :
            tu \in {tu \in FileTexts(MaxLines) \X FileTexts(MaxLines) :
                       Len(tu[1]) + Len(tu[2]) <= MaxLines}}

\* a directory of source files
DirInputs ==
    {[isdir |-> TRUE, path |-> <<"d">>, lines |-> NoLines, entries |-> d] :
        d \in Directories}

Limits == {PyNone} \cup {PyInt(n) : n \in (0 - 1)..MaxLimit}

AtivosArgs == {VALE3, VALE3 \o <<",">>}

Args ==
    {[ativos |-> a, entrada |-> e, limit |-> l] :
        a \in AtivosArgs, e \in FileInputs \cup DirInputs, l \in Limits}

NoReturn == [raised |-> FALSE, registro |-> <<>>]

-----------------------------------------------------------------------------
(* main *)

Init ==
    /\ args \in Args
    /\ ativos = {}
    /\ arquivos = <<>>
    /\ pc = "setup"
    /\ fi = 0
    /\ li = 0
    /\ outfile = <<>>
    /\ linhas_processadas = 0
    /\ reported = PyNone
    /\ log = <<>>
    /\ arg = <<>>
    /\ ret = NoReturn

\* the wanted set, the source list, the counter
Setup ==
    /\ pc = "setup"
    /\ ativos' = wanted(args.ativos)
    /\ IF args.entrada.isdir
       THEN \E listing \in listdir(args.entrada) :
                arquivos' = resolve(args.entrada, listing)
       ELSE arquivos' = <<args.entrada.path>>
    /\ linhas_processadas' = 0
    /\ pc' = "open"
    /\ UNCHANGED <<args, fi, li, outfile, reported, log, arg, ret>>

\* with open(output_filename, "w"): the destination is emptied and the header written
OpenOutput ==
    /\ pc = "open"
    /\ outfile' = writeheader(<<>>)
    /\ log' = Append(log, Event("writeheader", 0, 0))
    /\ pc' = "for_arq"
    /\ UNCHANGED <<args, ativos, arquivos, fi, li, linhas_processadas,
                   reported, arg, ret>>

\* for arq in arquivos: the next source is opened, or the loop is over
NextFile ==
    /\ pc = "for_arq"
    /\ IF fi < Len(arquivos)
       THEN /\ fi' = fi + 1
            /\ li' = 0
            /\ log' = Append(log, Event("open", fi + 1, 0))
            /\ pc' = "for_line"
       ELSE /\ pc' = "print"
            /\ UNCHANGED <<fi, li, log>>
    /\ UNCHANGED <<args, ativos, arquivos, outfile, linhas_processadas,
                   reported, arg, ret>>

\* the line the inner loop takes next
infile == readlines(args.entrada, arquivos[fi])
HasLine == pc = "for_line" /\ li < Len(infile)
line == infile[li + 1]

\* if len(line) < 2: continue
SkipShort ==
    /\ HasLine
    /\ too_short(line)
    /\ li' = li + 1
    /\ log' = Append(log, Event("read", fi, li + 1))
    /\ UNCHANGED <<args, ativos, arquivos, pc, fi, outfile,
                   linhas_processadas, reported, arg, ret>>

\* if line[0:2] != "01": continue
SkipMarker ==
    /\ HasLine
    /\ ~too_short(line)
    /\ not_data(line)
    /\ li' = li + 1
    /\ log' = Append(log, Event("read", fi, li + 1))
    /\ UNCHANGED <<args, ativos, arquivos, pc, fi, outfile,
                   linhas_processadas, reported, arg, ret>>

\* the counter moved before the filter: a rejected record counts
Reject_counted ==
    /\ log' = log \o <<Event("read", fi, li + 1), Event("parse_line", fi, li + 1)>>
    /\ linhas_processadas' = linhas_processadas + 1
    /\ UNCHANGED <<pc, outfile>>

\* if registro["ativo"] not in ativos: continue
Reject ==
    /\ log' = log \o <<Event("read", fi, li + 1), Event("parse_line", fi, li + 1)>>
    /\ UNCHANGED <<pc, outfile, linhas_processadas>>

\* writer.writerow(registro); linhas_processadas += 1; the limit check
Accept(registro) ==
    LET w == writerow(outfile, registro)
    IN  IF w.raised
        THEN /\ pc' = "aborted"
             /\ log' = log \o <<Event("read", fi, li + 1),
                                Event("parse_line", fi, li + 1)>>
             /\ UNCHANGED <<outfile, linhas_processadas>>
        ELSE /\ outfile' = w.out
             /\ linhas_processadas' = linhas_processadas + 1
             /\ log' = log \o <<Event("read", fi, li + 1),
                                Event("parse_line", fi, li + 1),
                                Event("writerow", fi, li + 1)>>
             /\ pc' = IF limit_reached(args.limit, linhas_processadas + 1)
                      THEN "after_file" ELSE "for_line"

\* a data record: decoded, then filtered, then written
DataLine ==
    /\ HasLine
    /\ ~too_short(line)
    /\ ~not_data(line)
    /\ li' = li + 1
    /\ \E pad_year \in BOOLEAN :
         LET r == parse_line(line, pad_year)
         IN  IF r.raised
             THEN /\ pc' = "aborted"
                  /\ log' = log \o <<Event("read", fi, li + 1),
                                     Event("parse_line", fi, li + 1)>>
                  /\ UNCHANGED <<outfile, linhas_processadas>>
             ELSE IF r.registro.ativo \notin ativos
             THEN Reject
             ELSE Accept(r.registro)
    /\ UNCHANGED <<args, ativos, arquivos, fi, reported, arg, ret>>

\* for line in infile: no line is left, the source is closed
EndOfFile ==
    /\ pc = "for_line"
    /\ li = Len(infile)
    /\ pc' = "after_file"
    /\ UNCHANGED <<args, ativos, arquivos, fi, li, outfile,
                   linhas_processadas, reported, log, arg, ret>>

\* after a source: if the limit is reached no other source is opened
AfterFile ==
    /\ pc = "after_file"
    /\ pc' = IF limit_reached(args.limit, linhas_processadas)
             THEN "print" ELSE "for_arq"
    /\ UNCHANGED <<args, ativos, arquivos, fi, li, outfile,
                   linhas_processadas, reported, log, arg, ret>>

\* print(... Total de linhas: {linhas_processadas})
Report ==
    /\ pc = "print"
    /\ reported' = PyInt(linhas_processadas)
    /\ pc' = "done"
    /\ UNCHANGED <<args, ativos, arquivos, fi, li, outfile,
                   linhas_processadas, log, arg, ret>>

Next ==
    \/ Setup
    \/ OpenOutput
    \/ NextFile
    \/ SkipShort
    \/ SkipMarker
    \/ DataLine
    \/ EndOfFile
    \/ AfterFile
    \/ Report

Spec == Init /\ [][Next]_vars

-----------------------------------------------------------------------------
(* parse_line on its own: one call on one line *)

InitDecode ==
    /\ arg \in DecoderLines
    /\ ret = NoReturn
    /\ pc = "call"
    /\ args = [ativos |-> <<>>,
               entrada |-> [isdir |-> FALSE, path |-> <<"a">>,
                            lines |-> NoLines, entries |-> {}],
               limit |-> PyNone]
    /\ ativos = {}
    /\ arquivos = <<>>
    /\ fi = 0
    /\ li = 0
    /\ outfile = <<>>
    /\ linhas_processadas = 0
    /\ reported = PyNone
    /\ log = <<>>

ParseLineCall ==
    /\ pc = "call"
    /\ \E pad_year \in BOOLEAN : ret' = parse_line(arg, pad_year)
    /\ pc' = "return"
    /\ UNCHANGED <<args, ativos, arquivos, fi, li, outfile,
                   linhas_processadas, reported, log, arg>>

NextDecode == ParseLineCall

SpecDecode == InitDecode /\ [][NextDecode]_vars

-----------------------------------------------------------------------------
(* What the claims speak of *)

\* the data rows of the destination
DataRows == SelectSeq(outfile, LAMBDA r : ~r.header)

\* the events of one kind, in the order they happened
Events(ev) == SelectSeq(log, LAMBDA e : e.ev = ev)

\* the line an event is about
LineOf(e) == readlines(args.entrada, arquivos[e.f])[e.l]

\* the line the inner loop is about to take is a data record
IsData(l) == Len(l) >= 2 /\ l[1] = "0" /\ l[2] = "1"

\* position a is before position b in the concatenation of the sources
Before(a, b) == a.f < b.f \/ (a.f = b.f /\ a.l < b.l)

\* a limit is set, and a write has brought the count to it
Stopped ==
    /\ args.limit.t = "int"
    /\ Len(DataRows) >= 1
    /\ linhas_processadas >= args.limit.v

-----------------------------------------------------------------------------
(* C1 *)

\* C1: when a limit is set, the number of data rows written never exceeds
\* it, whatever integer the limit is (a limit of 0 or less allows no row).
C1_RowsWithinLimit ==
    args.limit.t = "int"
        => Len(DataRows) <= (IF args.limit.v < 0 THEN 0 ELSE args.limit.v)

-----------------------------------------------------------------------------
(* C2 *)

\* C2: once a write has brought the count to the limit, the inner loop is
\* left at that very write (no later line is taken), and from then on no
\* line is read or decoded, no source is opened and no row is written: the
\* only steps left are the ones that end the run.
C2_HardStop ==
    /\ [](Stopped => pc \in {"after_file", "print", "done"})
    /\ [][Stopped => /\ log' = log
                     /\ outfile' = outfile
                     /\ fi' = fi /\ li' = li
                     /\ linhas_processadas' = linhas_processadas
                     /\ pc' \in {"print", "done"}]_vars

\* a run stopped by the limit in the middle of a file, with a later source
\* never opened
C2_Witness ==
    /\ Stopped
    /\ pc = "done"
    /\ fi < Len(arquivos)
    /\ li < Len(infile)

-----------------------------------------------------------------------------
(* C3 *)

\* C3: a step that takes a line shorter than 2 characters, or one that does
\* not start with "01", only reads it: no call of the decoder, no row, and
\* the count as before.
C3_SkippedLineLeavesNoTrace ==
    [][(HasLine /\ ~IsData(line) /\ li' = li + 1)
         => /\ log' = Append(log, Event("read", fi, li + 1))
            /\ outfile' = outfile
            /\ linhas_processadas' = linhas_processadas]_vars

\* a finished run that took a one-character line and a line with another
\* marker, and also wrote a row
C3_Witness ==
    /\ pc = "done"
    /\ \E i \in 1..Len(log) : log[i].ev = "read" /\ Len(LineOf(log[i])) < 2
    /\ \E i \in 1..Len(log) :
          /\ log[i].ev = "read"
          /\ Len(LineOf(log[i])) >= 2
          /\ ~IsData(LineOf(log[i]))
    /\ Len(DataRows) >= 1

-----------------------------------------------------------------------------
(* C4 *)

\* the ticker of a line: line[12:24] without the whitespace around it
TickerOf(l) == strip(Slice(l, 12, 24))

\* C4: a step that takes a line of length >= 2 starting with "01" calls the
\* decoder on it, and writes a row (with that ticker, counting it) exactly
\* when the ticker is in the wanted set; otherwise the output and the count
\* stay as they were.  The file with a VALE3 record and a PETR4 record,
\* wanted VALE3, gives exactly one data row, for VALE3.
C4_RowIffWantedTicker ==
    /\ [][(HasLine /\ IsData(line) /\ li' = li + 1)
            => /\ Len(log') >= Len(log) + 2
               /\ log'[Len(log) + 2] = Event("parse_line", fi, li + 1)
               /\ IF TickerOf(line) \in ativos
                  THEN /\ Len(outfile') = Len(outfile) + 1
                       /\ SubSeq(outfile', 1, Len(outfile)) = outfile
                       /\ ~outfile'[Len(outfile')].header
                       /\ outfile'[Len(outfile')].cells[4] = TickerOf(line)
                       /\ linhas_processadas' = linhas_processadas + 1
                  ELSE /\ outfile' = outfile
                       /\ linhas_processadas' = linhas_processadas]_vars
    /\ []((/\ pc = "done"
           /\ ~args.entrada.isdir
           /\ args.entrada.lines
                = <<RecordLine(TickerVALE3), RecordLine(TickerPETR4)>>
           /\ ativos = {VALE3}
           /\ args.limit = PyNone)
          => /\ Len(DataRows) = 1
             /\ DataRows[1].cells[4] = VALE3)

\* the end of the run on the VALE3 and PETR4 file: both records decoded,
\* one row
C4_Witness ==
    /\ pc = "done"
    /\ ~args.entrada.isdir
    /\ args.entrada.lines = <<RecordLine(TickerVALE3), RecordLine(TickerPETR4)>>
    /\ ativos = {VALE3}
    /\ Len(Events("parse_line")) = 2
    /\ Len(DataRows) = 1

-----------------------------------------------------------------------------
(* C5 *)

\* C5: the source list of a directory is its files in ascending path order,
\* sources are opened and lines taken in that order, the k-th data row
\* comes from the k-th accepted line, accepted lines follow one another in
\* the concatenation of the sources, and a step only ever appends to the
\* rows already written.
C5_OutputInScanOrder ==
    /\ [](pc # "setup" =>
            LET opens == Events("open")
                reads == Events("read")
                writes == Events("writerow")
            IN  /\ args.entrada.isdir =>
                     /\ \A i \in 1..(Len(arquivos) - 1) :
                            StrLess(arquivos[i], arquivos[i + 1])
                     /\ {arquivos[i] : i \in 1..Len(arquivos)}
                          = {join(args.entrada.path, e.name) :
                               e \in {e \in args.entrada.entries : e.isfile}}
                /\ \A i \in 1..Len(opens) : opens[i].f = i
                /\ \A i \in 1..(Len(reads) - 1) : Before(reads[i], reads[i + 1])
                /\ \A i \in 1..(Len(writes) - 1) : Before(writes[i], writes[i + 1])
                /\ Len(writes) = Len(DataRows)
                /\ \A k \in 1..Len(writes) :
                       DataRows[k].cells[4] = TickerOf(LineOf(writes[k])))
    /\ [][/\ Len(outfile') >= Len(outfile)
          /\ SubSeq(outfile', 1, Len(outfile)) = outfile]_vars

\* a finished run over a directory whose two files each gave a row, with
\* different tickers
C5_Witness ==
    /\ pc = "done"
    /\ args.entrada.isdir
    /\ Len(arquivos) = 2
    /\ Len(DataRows) = 2
    /\ DataRows[1].cells[4] # DataRows[2].cells[4]
    /\ Events("writerow")[1].f = 1
    /\ Events("writerow")[2].f = 2

-----------------------------------------------------------------------------
(* C6 *)

\* the columns by kind, each scaled and integer column with its offsets
ScaledFields ==
    {<<"preco_abertura", 56, 69>>, <<"preco_maximo", 69, 82>>,
     <<"preco_minimo", 82, 95>>, <<"preco_fechamento", 95, 108>>,
     <<"preco_melhor_compra", 108, 121>>, <<"preco_melhor_venda", 121, 134>>,
     <<"volume_financeiro", 157, 173>>,
     <<"preco_fechamento_ajustado", 173, 186>>}

IntegerFields ==
    {<<"numero_negocios", 134, 141>>, <<"quantidade_acoes", 141, 157>>,
     <<"fator_ajuste", 186, 190>>}

TextFields ==
    {<<"codigo_registro", 2>>, <<"codigo_mercado", 2>>, <<"ativo", 12>>,
     <<"codigo_bdi", 3>>, <<"nome", 12>>, <<"especificador", 8>>,
     <<"identificacao_mercado", 5>>, <<"moeda_cotacao", 4>>}

\* C6: parse_line returns for every line of 2 characters or more, whatever
\* is in it: nothing is raised, the record has the 21 columns, every scaled
\* column is a float or None, every integer column an int, the date is the
\* raw slice or a 10-character date, and no text is wider than its field.
C6_DecodingIsTotal ==
    (pc = "return" /\ Len(arg) >= 2) =>
        /\ ~ret.raised
        /\ DOMAIN ret.registro = FieldSet
        /\ Cardinality(DOMAIN ret.registro) = 21
        /\ \A f \in ScaledFields : ret.registro[f[1]].t \in {"float", "NoneType"}
        /\ \A f \in IntegerFields : ret.registro[f[1]].t = "int"
        /\ \A f \in TextFields : Len(ret.registro[f[1]]) <= f[2]
        /\ \/ ret.registro.data_pregao = Slice(arg, 2, 10)
           \/ Len(ret.registro.data_pregao) \in {9, 10}
        /\ Len(arg) <= 190 => ret.registro.codigo_papel_registro = <<>>

\* a line cut inside its numeric fields, with a date that is none and
\* letters where the prices are: fallbacks in every kind of column
C6_Witness ==
    /\ pc = "return"
    /\ Len(arg) = 150
    /\ ~ret.raised
    /\ ret.registro.data_pregao = <<"2", "0", "2", "4", "A", "B", "0", "2">>
    /\ ret.registro.preco_abertura = PyNone
    /\ ret.registro.numero_negocios = PyInt(0)
    /\ ret.registro.volume_financeiro = PyNone

-----------------------------------------------------------------------------
(* C7 *)

Letters == {"A", "B", "R", "V", "L", "E", "C", "N", "O", "$"}

AllDigits(s) == s # <<>> /\ \A i \in 1..Len(s) : s[i] \in Digits

\* empty, nothing but whitespace, or with a letter in it
NotANumber(s) ==
    \/ \A i \in 1..Len(s) : s[i] \in Whitespace
    \/ \E i \in 1..Len(s) : s[i] \in Letters

\* C7: a scaled column is its slice read in base 10, over 100, when the
\* slice is digits, and None (not 0.0) when the slice is empty, blank or
\* has a letter; an integer column is the slice read in base 10 when the
\* slice is digits, and 0 when it is empty, blank or has a letter.
C7_FallbackAsymmetry ==
    pc = "return" =>
        /\ \A f \in ScaledFields :
             LET sl == Slice(arg, f[2], f[3])
                 val == ret.registro[f[1]]
             IN  /\ AllDigits(sl) => val = PyFloat100(DigitsValue(sl))
                 /\ NotANumber(sl) => val = PyNone /\ val.t # "float"
        /\ \A f \in IntegerFields :
             LET sl == Slice(arg, f[2], f[3])
                 val == ret.registro[f[1]]
             IN  /\ AllDigits(sl) => val = PyInt(DigitsValue(sl))
                 /\ NotANumber(sl) => val = PyInt(0)

\* a record of digits cut at 150 characters: 10.50 for the opening price,
\* the trade count read, the zeros left of the quantity read as 0, None for
\* the volume that is cut away and 0 for the factor that is cut away
C7_Witness ==
    /\ pc = "return"
    /\ Len(arg) = 150
    /\ Slice(arg, 56, 69)
         = <<"0", "0", "0", "0", "0", "0", "0", "0", "0", "1", "0", "5", "0">>
    /\ ret.registro.preco_abertura = PyFloat100(1050)
    /\ ret.registro.numero_negocios = PyInt(1056)
    /\ ret.registro.quantidade_acoes = PyInt(0)
    /\ ret.registro.volume_financeiro = PyNone
    /\ ret.registro.fator_ajuste = PyInt(0)

-----------------------------------------------------------------------------
(* C8 *)

\* eight digits that are the year, month and day of a date that exists
ValidDate8(s) ==
    /\ Len(s) = 8
    /\ \A i \in 1..8 : s[i] \in Digits
    /\ LET y == DigitsValue(SubSeq(s, 1, 4))
           m == DigitsValue(SubSeq(s, 5, 6))
           d == DigitsValue(SubSeq(s, 7, 8))
       IN  y >= 1 /\ m \in 1..12 /\ d \in 1..DaysInMonth(y, m)

\* YYYY-MM-DD from YYYYMMDD
Iso(s) == SubSeq(s, 1, 4) \o <<"-">> \o SubSeq(s, 5, 6) \o <<"-">> \o SubSeq(s, 7, 8)

\* C8: the decoded date is YYYY-MM-DD when line[2:10] is eight digits of a
\* date that exists, and the raw slice, unchanged, in every other case
\* (stated for the lines main hands to parse_line: those that start "01").
C8_DateOrRawSlice ==
    (pc = "return" /\ IsData(arg)) =>
        ret.registro.data_pregao
            = IF ValidDate8(Slice(arg, 2, 10)) THEN Iso(Slice(arg, 2, 10))
              ELSE Slice(arg, 2, 10)

-----------------------------------------------------------------------------
(* C9 *)

\* C9: once the destination is open it starts with the header row, the
\* only header row in it, and the header is the first thing main does to
\* any file: before it nothing is written and no source is opened.
C9_HeaderOnceAndFirst ==
    /\ pc \in {"setup", "open"} => outfile = <<>> /\ log = <<>>
    /\ pc \notin {"setup", "open"} =>
         /\ Len(outfile) >= 1
         /\ outfile[1] = [header |-> TRUE, cells |-> fieldnames]
         /\ \A i \in 2..Len(outfile) : ~outfile[i].header
         /\ log[1].ev = "writeheader"
         /\ Len(Events("writeheader")) = 1

\* a finished run that scanned lines and accepted none: the header alone
C9_Witness ==
    /\ pc = "done"
    /\ Len(Events("read")) >= 2
    /\ Len(Events("parse_line")) >= 1
    /\ Len(outfile) = 1

-----------------------------------------------------------------------------
(* C10 *)

\* C10: the count is the number of data rows written so far; it starts at
\* 0, a step leaves it or adds exactly 1, and it adds 1 exactly when the
\* step writes a row; the total printed is the number of data rows.
C10_CountIsRowsWritten ==
    /\ [](/\ linhas_processadas = Len(DataRows)
          /\ linhas_processadas = Len(Events("writerow"))
          /\ pc = "setup" => linhas_processadas = 0
          /\ pc = "done" => reported = PyInt(Len(DataRows))
          /\ pc # "done" => reported = PyNone)
    /\ [][\/ /\ linhas_processadas' = linhas_processadas
             /\ Len(Events("writerow"))' = Len(Events("writerow"))
          \/ /\ linhas_processadas' = linhas_processadas + 1
             /\ Len(Events("writerow"))' = Len(Events("writerow")) + 1]_vars

\* a finished run that wrote two rows and turned a record down
C10_Witness ==
    /\ pc = "done"
    /\ reported = PyInt(2)
    /\ Len(Events("parse_line")) = 3

====
